---- MODULE Spec2Model ----
(***************************************************************************)
(* A model of workspaces.py: the package selector, the shell executor      *)
(* (cmd / run), the parallel mapper (thread_map) and the command handlers  *)
(* ci, build, clean, npm, version-check and publish.                       *)
(*                                                                         *)
(* Strings are sequences of one-character strings, so that split, the      *)
(* substring test and os.path.join are computed, not assumed.              *)
(***************************************************************************)
EXTENDS Integers, Sequences, FiniteSets, TLC

VARIABLES
    handler,    \* the sub-command being run (args.func)
    filter,     \* args.packages
    distOnly,   \* args.dist_only
    nmOnly,     \* args.node_modules_only
    listing,    \* os.listdir('packages'), in the file system's enumeration order
    dirs,       \* the package paths that are directories
    dist,       \* the package paths that hold a 'dist' folder
    nm,         \* the package paths that hold a 'node_modules' folder
    cwd,        \* the working directory of the process (shared by all threads)
    mpc,        \* the main thread's position
    v,          \* the list packages(args) returned
    idx,        \* the loop index of a serial handler (for path in v)
    paths,      \* clean: the folders collected for deletion
    rmDone,     \* clean: per collected folder, "no" / "ok" / "fail"
    banners,    \* the banners printed so far
    cleared,    \* build: the packages whose dist folder shutil.rmtree was called on
    tasks,      \* the shell executor calls of the handler, one record per call
    firstExc,   \* thread_map: the first exception a pool task raised ("none" if none)
    err         \* the exception that left the handler ("none" if none)

\* the command line and the enumeration of 'packages', which never change
args == <<handler, filter, distOnly, nmOnly, listing>>

vars == <<args, cleared, dirs, dist, nm, cwd, mpc, v, idx, paths, rmDone, banners, tasks,
          firstExc, err>>

-----------------------------------------------------------------------------
(* Bounds of the model.                                                    *)

\* the longest filter string drawn from FilterAlphabet
MaxFilterLen == 2
\* the most entries os.listdir('packages') returns
MaxListing == 2
\* the most packages a handler of the run specification works on
MaxTasks == 2

-----------------------------------------------------------------------------
(* Strings.                                                                *)

Str_packages == <<"p", "a", "c", "k", "a", "g", "e", "s">>
Str_cdn == <<"c", "d", "n">>
Str_static == <<"s", "t", "a", "t", "i", "c">>
Str_hub == <<"h", "u", "b">>
Str_extra == <<"e", "x", "t", "r", "a">>

\* s.split(sep) of Python, for a one-character separator
RECURSIVE Split(_, _)
Split(s, sep) ==
    IF \A i \in 1..Len(s) : s[i] # sep
    THEN <<s>>
    ELSE LET k == CHOOSE i \in 1..Len(s) :
                      s[i] = sep /\ \A j \in 1..(i - 1) : s[j] # sep
         IN  <<SubSeq(s, 1, k - 1)>> \o Split(SubSeq(s, k + 1, Len(s)), sep)

\* term in name, on Python strings
In(term, name) ==
    \E i \in 0..(Len(name) - Len(term)) : SubSeq(name, i + 1, i + Len(term)) = term

\* os.path.join(a, b) for a relative b
Join(a, b) == a \o <<"/">> \o b

\* x in v, on a Python list
InList(x, list) == \E i \in 1..Len(list) : list[i] = x

-----------------------------------------------------------------------------
(* The package selector.                                                   *)

\* a variant of matches that tests the whole path, not its last segment
matches_whole_path(package, pk) ==
    IF pk = <<>>
    THEN TRUE
    ELSE LET terms == Split(pk, ",")
         IN  \E i \in 1..Len(terms) : In(terms[i], package)

\* matches(package, packages): a term that is a substring of the last path
\* segment, or no filter at all
matches(package, pk) ==
    IF pk = <<>>
    THEN TRUE
    ELSE LET segs == Split(package, "/")
             name == segs[Len(segs)]
             terms == Split(pk, ",")
         IN  \E i \in 1..Len(terms) : In(terms[i], name)

\* the list v starts from
SeedList ==
    << <<"p", "a", "c", "k", "a", "g", "e", "s", "/", "c", "d", "n">>,
       <<"s", "m", "c", "-", "u", "t", "i", "l">>,
       <<"s", "m", "c", "-", "h", "u", "b">>,
       <<"s", "m", "c", "-", "w", "e", "b", "a", "p", "p">>,
       <<"w", "e", "b", "a", "p", "p", "-", "l", "i", "b">> >>

\* a variant of Appendable without the test "path not in v"
Appendable_no_membership_test(path, acc, isdir) == path \in isdir

\* the test of the listing loop: append path?
Appendable(path, acc, isdir) == ~InList(path, acc) /\ path \in isdir

\* the listing loop: for x in os.listdir('packages'), from entry k on
RECURSIVE Discover(_, _, _, _)
Discover(acc, ls, isdir, k) ==
    IF k > Len(ls)
    THEN acc
    ELSE LET path == Join(Str_packages, ls[k])
         IN  Discover(IF Appendable(path, acc, isdir) THEN Append(acc, path) ELSE acc,
                      ls, isdir, k + 1)

\* p = [x for x in v if matches(x, args.packages)]
RECURSIVE Keep(_, _)
Keep(list, pk) ==
    IF list = <<>>
    THEN <<>>
    ELSE (IF matches(Head(list), pk) THEN <<Head(list)>> ELSE <<>>)
             \o Keep(Tail(list), pk)

\* a variant of Candidates that lists the 'packages' folder before the seeds
Candidates_listing_first(ls, isdir) ==
    LET found == Discover(<<>>, ls, isdir, 1)
    IN  found \o SelectSeq(SeedList, LAMBDA x : ~InList(x, found))

\* the candidate list v of packages(args), before the filter
Candidates(ls, isdir) == Discover(SeedList, ls, isdir, 1)

\* packages(args)
packages(ls, isdir, pk) == Keep(Candidates(ls, isdir), pk)

-----------------------------------------------------------------------------
(* The file system and the inputs.                                         *)

\* the names os.listdir('packages') may return
EntryNames == {Str_cdn, Str_static, Str_hub, Str_extra}

\* the characters filter strings are drawn from
FilterAlphabet == {"h", "b", "c", ",", "H"}

\* the sequences over S of length at most n
RECURSIVE SeqsUpTo(_, _)
SeqsUpTo(S, n) ==
    IF n = 0
    THEN {<<>>}
    ELSE LET shorter == SeqsUpTo(S, n - 1)
         IN  shorter \cup {Append(q, c) : q \in {r \in shorter : Len(r) = n - 1}, c \in S}

NoRepeat(q) == \A i, j \in 1..Len(q) : i # j => q[i] # q[j]

\* the enumerations os.listdir may return: distinct names, in any order
Listings == {q \in SeqsUpTo(EntryNames, MaxListing) : NoRepeat(q)}

\* the filters of the selector specification: every short string, and the
\* filters of the documented scenarios
Filters ==
    SeqsUpTo(FilterAlphabet, MaxFilterLen)
        \cup {Str_hub, <<"h", "u", "b", ",", "c", "d", "n">>}

\* the filters of the run specification
RunFilters ==
    {Str_hub, Str_static, Str_cdn, <<"b">>, <<"H">>,
     <<"h", "u", "b", ",", "s", "t", "a", "t", "i", "c">>}

EntryPaths(ls) == {Join(Str_packages, ls[k]) : k \in 1..Len(ls)}

Range(q) == {q[k] : k \in 1..Len(q)}

-----------------------------------------------------------------------------
(* Directories, exceptions and shell executor calls.                       *)

\* a directory is the list of package paths leading to it from the
\* repository root, where the program is started
Root == <<>>
NoDir == << <<"?">> >>

\* os.path.abspath(path), taken while the working directory is c
Abspath(c, path) == c \o <<path>>

\* the directory os.chdir(path) goes to
Resolve(c, t) == IF t.abs THEN t.dir ELSE Abspath(c, t.dir[1])

\* os.chdir succeeds on an existing directory only
DirExists(d, isdir) == d = Root \/ (Len(d) = 1 /\ d[1] \in isdir)

NoExc == [kind |-> "none", cmd |-> ""]
Exc(k, s) == [kind |-> k, cmd |-> s]

\* os.system(s) (a wait status) and subprocess.run(s).returncode, per outcome
\* of the shell: the command succeeds, fails, or is not found
Outcomes == {"ok", "fail", "notfound"}
System(outcome) ==
    CASE outcome = "ok" -> 0
      [] outcome = "fail" -> 256
      [] outcome = "notfound" -> 32512
Returncode(outcome) ==
    CASE outcome = "ok" -> 0
      [] outcome = "fail" -> 1
      [] outcome = "notfound" -> 127

\* a call cmd(s, path) or run(s, path) that has not started; home is the
\* local variable of the call, outcome what the shell reported to it
Call(kind, s, given, abs, dir, pc) ==
    [kind |-> kind, s |-> s, given |-> given, abs |-> abs, dir |-> dir, pc |-> pc,
     home |-> NoDir, outcome |-> "none", exc |-> NoExc]

\* the pool size thread_map is given
NbThreads == 10

SerialHandlers == {"ci", "build", "publish", "version-check"}
PoolHandlers == {"clean", "npm"}
Handlers == SerialHandlers \cup PoolHandlers

Running == {i \in 1..Len(tasks) : tasks[i].pc \in {"entered", "pathed", "finally", "left"}}

-----------------------------------------------------------------------------
(* Initial states.                                                         *)

\* the top-level seed packages, which os.listdir('packages') does not report
TopSeeds == {SeedList[k] : k \in 2..Len(SeedList)}

Quiet ==
    /\ cwd = Root
    /\ mpc = "start"
    /\ v = <<>>
    /\ idx = 1
    /\ paths = <<>>
    /\ rmDone = <<>>
    /\ banners = <<>>
    /\ cleared = {}
    /\ tasks = <<>>
    /\ firstExc = NoExc
    /\ err = NoExc

\* the selector alone, on every filter, enumeration order and mix of
\* directories and plain files under 'packages'
InitSel ==
    /\ handler = "packages"
    /\ filter \in Filters
    /\ listing \in Listings
    /\ \E sub \in SUBSET EntryPaths(listing) : dirs = TopSeeds \cup sub
    /\ distOnly = FALSE
    /\ nmOnly = FALSE
    /\ dist = {}
    /\ nm = {}
    /\ Quiet

\* does the handler look for 'dist' folders, for 'node_modules' folders?
ReadsDist(h, d, n) == h = "build" \/ (h = "clean" /\ (d \/ ~n))
ReadsNm(h, d, n) == h = "clean" /\ ~d

\* the most packages a handler is run on
Limit(h) == IF h \in PoolHandlers THEN MaxTasks ELSE MaxTasks + 1

\* a handler started in the repository root.  Every entry of 'packages' is
\* a selected directory here (the selector specification has the rest); a
\* top-level seed package may be missing; the folders and flags a handler does
\* not read are left out
Init ==
    /\ handler \in Handlers
    /\ filter \in RunFilters
    /\ listing \in Listings
    /\ LET sub == EntryPaths(listing)
           sel == Range(packages(listing, sub, filter))
       IN  /\ sub \subseteq sel
           /\ Cardinality(sel) <= Limit(handler)
           /\ handler = "version-check" => filter = Str_hub /\ listing = <<>>
           /\ \E top \in SUBSET (sel \cap TopSeeds) : dirs = sub \cup top
           /\ distOnly \in (IF handler = "clean" THEN BOOLEAN ELSE {FALSE})
           /\ nmOnly \in (IF handler = "clean" THEN BOOLEAN ELSE {FALSE})
           /\ dist \in (IF ReadsDist(handler, distOnly, nmOnly)
                        THEN SUBSET (sel \cap dirs) ELSE {{}})
           /\ nm \in (IF ReadsNm(handler, distOnly, nmOnly)
                      THEN SUBSET (sel \cap dirs) ELSE {{}})
    /\ Quiet

-----------------------------------------------------------------------------
(* The shell executor: cmd(s, path) and run(s, path), statement by         *)
(* statement, since other pool threads run between the statements.         *)

\* home = os.path.abspath(os.curdir)
Home(c) == c

\* may call i start now?  A serial handler starts the call of its loop index;
\* the pool starts any waiting call while a worker is free
MayStart(i) ==
    IF handler \in PoolHandlers
    THEN mpc = "map" /\ Cardinality(Running) < NbThreads
    ELSE mpc = "loop" /\ idx = i

CmdEnter(i) ==
    /\ tasks[i].pc = "ready"
    /\ MayStart(i)
    /\ tasks' = [tasks EXCEPT ![i].pc = "entered", ![i].home = Home(cwd)]
    /\ UNCHANGED <<args, cleared, dirs, dist, nm, cwd, mpc,
                   v, idx, paths, rmDone, banners, firstExc, err>>

\* what os.chdir(path) raises: the error of the operating system, which does
\* not carry the command
ChdirRaise(d, isdir) ==
    IF DirExists(d, isdir) THEN NoExc ELSE Exc("FileNotFoundError", "")

\* handle_path(s, path, verbose)
HandlePath(i) ==
    /\ tasks[i].pc = "entered"
    /\ IF tasks[i].given
       THEN LET d == Resolve(cwd, tasks[i])
                e == ChdirRaise(d, dirs)
            IN  IF e = NoExc
                THEN /\ cwd' = d
                     /\ tasks' = [tasks EXCEPT ![i].pc = "pathed"]
                ELSE /\ cwd' = cwd
                     /\ tasks' = [tasks EXCEPT ![i].pc = "finally", ![i].exc = e]
       ELSE /\ cwd' = cwd
            /\ tasks' = [tasks EXCEPT ![i].pc = "pathed"]
    /\ UNCHANGED <<args, cleared, dirs, dist, nm, mpc,
                   v, idx, paths, rmDone, banners, firstExc, err>>

\* a variant of CmdRaise whose error does not name the command
CmdRaise_without_command(s, status) ==
    IF status # 0 THEN Exc("RuntimeError", "") ELSE NoExc

\* cmd: if os.system(s): raise RuntimeError("Error executing '%s'" % s)
CmdRaise(s, status) == IF status # 0 THEN Exc("RuntimeError", s) ELSE NoExc

\* run: out = a.stdout.decode('utf8'), then
\*      if a.returncode: raise RuntimeError("Error executing '%s'" % s)
RunRaise(s, decodable, returncode) ==
    IF ~decodable
    THEN Exc("UnicodeDecodeError", "")
    ELSE IF returncode # 0 THEN Exc("RuntimeError", s) ELSE NoExc

\* the shell starts the command in the working directory of the process; a
\* build that succeeds may leave a 'dist' folder where it ran
Shell(i) ==
    /\ tasks[i].pc = "pathed"
    /\ \E outcome \in Outcomes, decodable \in BOOLEAN, makes \in BOOLEAN :
           /\ tasks[i].kind = "cmd" => decodable
           /\ makes => handler = "build" /\ outcome = "ok" /\ Len(cwd) = 1
           /\ tasks' = [tasks EXCEPT
                  ![i].pc = "finally",
                  ![i].outcome = outcome,
                  ![i].exc = IF tasks[i].kind = "cmd"
                             THEN CmdRaise(tasks[i].s, System(outcome))
                             ELSE RunRaise(tasks[i].s, decodable, Returncode(outcome))]
           /\ dist' = IF makes THEN dist \cup {cwd[1]} ELSE dist
    /\ UNCHANGED <<args, cleared, dirs, nm, cwd, mpc,
                   v, idx, paths, rmDone, banners, firstExc, err>>

\* finally: os.chdir(home)
Finally(i) ==
    /\ tasks[i].pc = "finally"
    /\ cwd' = tasks[i].home
    /\ tasks' = [tasks EXCEPT ![i].pc = "left"]
    /\ UNCHANGED <<args, cleared, dirs, dist, nm, mpc,
                   v, idx, paths, rmDone, banners, firstExc, err>>

\* a variant of AfterCall that goes on to the next package after a failure
AfterCall_keeps_going(exc, i, n) ==
    [mpc |-> IF i = n THEN "done" ELSE "loop", err |-> NoExc, idx |-> i + 1]

\* a serial handler after a call: the exception leaves the handler, or the
\* loop goes on to the next package
AfterCall(exc, i, n) ==
    IF exc # NoExc
    THEN [mpc |-> "raised", err |-> exc, idx |-> i]
    ELSE [mpc |-> IF i = n THEN "done" ELSE "loop", err |-> NoExc, idx |-> i + 1]

\* the call returns or raises in the main thread
SerialReturn(i) ==
    /\ tasks[i].pc = "left"
    /\ handler \in SerialHandlers
    /\ tasks' = [tasks EXCEPT ![i].pc = "done", ![i].home = NoDir]
    /\ LET a == AfterCall(tasks[i].exc, i, Len(tasks))
       IN  /\ mpc' = a.mpc
           /\ err' = a.err
           /\ idx' = a.idx
    /\ UNCHANGED <<args, cleared, dirs, dist, nm, cwd,
                   v, paths, rmDone, banners, firstExc>>

\* the pool keeps the first exception of its tasks
FirstException(first, exc) == IF first = NoExc THEN exc ELSE first

\* the call returns or raises in a pool thread
PoolReturn(i) ==
    /\ tasks[i].pc = "left"
    /\ handler \in PoolHandlers
    /\ tasks' = [tasks EXCEPT ![i].pc = "done", ![i].home = NoDir]
    /\ firstExc' = FirstException(firstExc, tasks[i].exc)
    /\ UNCHANGED <<args, cleared, dirs, dist, nm, cwd, mpc,
                   v, idx, paths, rmDone, banners, err>>

-----------------------------------------------------------------------------
(* The parallel mapper.                                                    *)

\* thread_map(callable, inputs, 10): nothing to do on an empty list
ThreadMapStart(n, pc) == IF n = 0 THEN "done" ELSE pc

\* a variant of ThreadMapResult that drops the exceptions of the tasks
ThreadMapResult_swallows(first, pc) == [mpc |-> pc, err |-> NoExc]

\* tp.map(callable, inputs) once every task has ended: the first exception is
\* raised in the caller, else the results are returned
ThreadMapResult(first, pc) ==
    IF first # NoExc
    THEN [mpc |-> "raised", err |-> first]
    ELSE [mpc |-> pc, err |-> NoExc]

-----------------------------------------------------------------------------
(* The handlers.                                                           *)

\* v = packages(args)
Packages ==
    /\ mpc = "start"
    /\ handler # "version-check"
    /\ v' = packages(listing, dirs, filter)
    /\ mpc' = "selected"
    /\ UNCHANGED <<args, cleared, dirs, dist, nm, cwd,
                   idx, paths, rmDone, banners, tasks, firstExc, err>>

\* for path in v: one call per package, with the relative package path
Loop(kind, s, pc) ==
    /\ mpc = "selected"
    /\ tasks' = [i \in 1..Len(v) |-> Call(kind, s, TRUE, FALSE, <<v[i]>>, pc)]
    /\ mpc' = IF Len(v) = 0 THEN "done" ELSE "loop"
    /\ UNCHANGED <<args, cleared, dirs, dist, nm, cwd,
                   v, idx, paths, rmDone, banners, firstExc, err>>

ci == handler = "ci" /\ Loop("cmd", "npm ci", "ready")

build == handler = "build" /\ Loop("cmd", "time npm run build", "new")

publish == handler = "publish" /\ Loop("run", "git status .", "ready")

version_check ==
    /\ mpc = "start"
    /\ handler = "version-check"
    /\ tasks' = <<Call("cmd", "scripts/check_npm_packages.py", FALSE, FALSE, Root, "ready")>>
    /\ mpc' = "loop"
    /\ UNCHANGED <<args, cleared, dirs, dist, nm, cwd,
                   v, idx, paths, rmDone, banners, firstExc, err>>

Str_packages_static == Join(Str_packages, Str_static)

\* a variant of ClearsDist that clears 'packages/static' like the others
ClearsDist_static_too(path, distset) == path \in distset

\* build: is the 'dist' folder of this package cleared before its build?
ClearsDist(path, distset) == path # Str_packages_static /\ path \in distset

\* build, the loop body before cmd: shutil.rmtree(dist), which may fail
BuildPrep ==
    /\ handler = "build"
    /\ mpc = "loop"
    /\ idx <= Len(tasks)
    /\ tasks[idx].pc = "new"
    /\ IF ClearsDist(v[idx], dist)
       THEN \E ok \in BOOLEAN :
                /\ cleared' = cleared \cup {v[idx]}
                /\ IF ok
                   THEN /\ dist' = dist \ {v[idx]}
                        /\ tasks' = [tasks EXCEPT ![idx].pc = "ready"]
                        /\ UNCHANGED <<mpc, err>>
                   ELSE /\ mpc' = "raised"
                        /\ err' = Exc("OSError", "")
                        /\ UNCHANGED <<dist, tasks>>
       ELSE /\ tasks' = [tasks EXCEPT ![idx].pc = "ready"]
            /\ UNCHANGED <<cleared, dist, mpc, err>>
    /\ UNCHANGED <<args, dirs, nm, cwd,
                   v, idx, paths, rmDone, banners, firstExc>>

\* clean: the folder names the flags ask for
Folders(d, n) ==
    IF d THEN <<"dist">>
    ELSE IF n THEN <<"node_modules">>
    ELSE <<"node_modules", "dist">>

\* os.path.exists(y) for y = <package>/<folder>
Exists(y, distset, nmset) ==
    IF y.folder = "dist" THEN y.pkg \in distset ELSE y.pkg \in nmset

\* a variant of Collected that collects a folder whether it exists or not
Collected_unchecked(y, distset, nmset) == TRUE

\* clean: is y collected for deletion?
Collected(y, distset, nmset) == Exists(y, distset, nmset)

\* clean: for path in v: for x in folders: ... paths.append(y), from the
\* k-th pair on
RECURSIVE Collect(_, _, _, _, _)
Collect(list, folders, distset, nmset, k) ==
    IF k >= Len(list) * Len(folders)
    THEN <<>>
    ELSE LET y == [pkg |-> list[(k \div Len(folders)) + 1],
                   folder |-> folders[(k % Len(folders)) + 1]]
         IN  (IF Collected(y, distset, nmset) THEN <<y>> ELSE <<>>)
                 \o Collect(list, folders, distset, nmset, k + 1)

\* clean, up to the start of the deletions
clean ==
    /\ mpc = "selected"
    /\ handler = "clean"
    /\ paths' = Collect(v, Folders(distOnly, nmOnly), dist, nm, 0)
    /\ rmDone' = [j \in 1..Len(paths') |-> "no"]
    /\ banners' = Append(banners, IF Len(paths') = 0
                                   THEN "No node_modules or dist directories"
                                   ELSE "Deleting")
    /\ mpc' = IF Len(paths') = 0 THEN "g" ELSE "rm"
    /\ UNCHANGED <<args, cleared, dirs, dist, nm, cwd,
                   v, idx, tasks, firstExc, err>>

\* clean, f(path) in a pool thread: shutil.rmtree(path), which may fail
Rmtree(j) ==
    /\ mpc = "rm"
    /\ rmDone[j] = "no"
    /\ \E ok \in BOOLEAN :
           IF ok
           THEN /\ rmDone' = [rmDone EXCEPT ![j] = "ok"]
                /\ dist' = IF paths[j].folder = "dist" THEN dist \ {paths[j].pkg} ELSE dist
                /\ nm' = IF paths[j].folder = "dist" THEN nm ELSE nm \ {paths[j].pkg}
                /\ UNCHANGED firstExc
           ELSE /\ rmDone' = [rmDone EXCEPT ![j] = "fail"]
                /\ firstExc' = FirstException(firstExc, Exc("OSError", ""))
                /\ UNCHANGED <<dist, nm>>
    /\ UNCHANGED <<args, cleared, dirs, cwd, mpc,
                   v, idx, paths, banners, tasks, err>>

\* clean: thread_map(f, paths, nb_threads=10) ends; once it has returned,
\* paths is not read again and is dropped
RmJoin ==
    /\ mpc = "rm"
    /\ \A j \in 1..Len(paths) : rmDone[j] # "no"
    /\ LET r == ThreadMapResult(firstExc, "g")
       IN  /\ mpc' = r.mpc
           /\ err' = r.err
           /\ paths' = IF r.mpc = "g" THEN <<>> ELSE paths
           /\ rmDone' = IF r.mpc = "g" THEN <<>> ELSE rmDone
    /\ UNCHANGED <<args, cleared, dirs, dist, nm, cwd,
                   v, idx, banners, tasks, firstExc>>

\* the calls a pool handler maps over: cmd(s, os.path.abspath(path))
PoolCalls(s) ==
    [i \in 1..Len(v) |-> Call("cmd", s, TRUE, TRUE, Abspath(cwd, v[i]), "ready")]

\* clean: thread_map(g, [os.path.abspath(path) for path in v], nb_threads=10)
clean_npm ==
    /\ mpc = "g"
    /\ banners' = Append(banners, "Running 'npm run clean' if it exists...")
    /\ tasks' = PoolCalls("npm run clean --if-present")
    /\ mpc' = ThreadMapStart(Len(v), "map")
    /\ UNCHANGED <<args, cleared, dirs, dist, nm, cwd,
                   v, idx, paths, rmDone, firstExc, err>>

\* npm, up to thread_map(f, inputs)
npm ==
    /\ mpc = "selected"
    /\ handler = "npm"
    /\ tasks' = PoolCalls("time npm args")
    /\ mpc' = ThreadMapStart(Len(v), "map")
    /\ UNCHANGED <<args, cleared, dirs, dist, nm, cwd,
                   v, idx, paths, rmDone, banners, firstExc, err>>

\* thread_map over the calls ends
MapJoin ==
    /\ mpc = "map"
    /\ \A i \in 1..Len(tasks) : tasks[i].pc = "done"
    /\ LET r == ThreadMapResult(firstExc, "done")
       IN  /\ mpc' = r.mpc
           /\ err' = r.err
    /\ UNCHANGED <<args, cleared, dirs, dist, nm, cwd,
                   v, idx, paths, rmDone, banners, tasks, firstExc>>

-----------------------------------------------------------------------------
(* Specifications.                                                         *)

Next ==
    \/ Packages
    \/ ci
    \/ build
    \/ publish
    \/ version_check
    \/ BuildPrep
    \/ clean
    \/ \E j \in 1..Len(paths) : Rmtree(j)
    \/ RmJoin
    \/ clean_npm
    \/ npm
    \/ MapJoin
    \/ \E i \in 1..Len(tasks) : CmdEnter(i)
    \/ \E i \in 1..Len(tasks) : HandlePath(i)
    \/ \E i \in 1..Len(tasks) : Shell(i)
    \/ \E i \in 1..Len(tasks) : Finally(i)
    \/ \E i \in 1..Len(tasks) : SerialReturn(i)
    \/ \E i \in 1..Len(tasks) : PoolReturn(i)

\* the handlers, run from the repository root
Spec == Init /\ [][Next]_vars

\* the package selector on its own
SpecSel == InitSel /\ [][Packages]_vars

-----------------------------------------------------------------------------
(* The package selector: C5, C6, C7, under SpecSel.                        *)

\* the terms of a filter: the maximal runs of characters other than ','
\* (empty runs included)
Terms(f) ==
    {SubSeq(f, a, b) : <<a, b>> \in
        {ab \in (1..(Len(f) + 1)) \X (0..Len(f)) :
            /\ ab[1] <= ab[2] + 1
            /\ \A k \in ab[1]..ab[2] : f[k] # ","
            /\ (ab[1] = 1 \/ f[ab[1] - 1] = ",")
            /\ (ab[2] = Len(f) \/ f[ab[2] + 1] = ",")}}

\* the final segment of a path: what follows its last '/'
FinalSegment(q) ==
    LET a == CHOOSE k \in 1..(Len(q) + 1) :
                 /\ \A j \in k..Len(q) : q[j] # "/"
                 /\ (k = 1 \/ q[k - 1] = "/")
    IN  [j \in 1..(Len(q) - a + 1) |-> q[a + j - 1]]

\* t occurs in q, character for character
Contains(q, t) ==
    \E a \in 1..(Len(q) + 1) :
        \A k \in 1..Len(t) : a + k - 1 <= Len(q) /\ q[a + k - 1] = t[k]

Wanted(q, f) == f = <<>> \/ \E t \in Terms(f) : Contains(FinalSegment(q), t)

IsSeed(q) == \E k \in 1..Len(SeedList) : SeedList[k] = q
SeedIndex(q) == CHOOSE k \in 1..Len(SeedList) : SeedList[k] = q

\* C5: the selector returns exactly the candidates (the seed list, then the
\* directories found under 'packages') whose final path segment contains one
\* of the comma-separated terms of the filter, in the candidates' order, and
\* all of them when the filter is empty
C5_SelectsMatching ==
    mpc = "selected" =>
        v = SelectSeq(Candidates(listing, dirs), LAMBDA q : Wanted(q, filter))

\* C5, the documented scenario: filter "hub" with packages/cdn and
\* packages/extra under 'packages' returns ['smc-hub']
C5_Witness ==
    /\ mpc = "selected"
    /\ filter = Str_hub
    /\ listing = <<Str_cdn, Str_extra>>
    /\ Join(Str_packages, Str_extra) \in dirs
    /\ v = <<SeedList[3]>>

\* C6: in the selector's output every seed package precedes every other
\* package, and the seed packages keep their declared order
C6_SeedsFirstInOrder ==
    mpc = "selected" =>
        \A i, j \in 1..Len(v) :
            i < j /\ IsSeed(v[j]) => IsSeed(v[i]) /\ SeedIndex(v[i]) < SeedIndex(v[j])

\* C6: an output with several seed packages and a discovered package, found
\* by a listing that enumerates 'hub' before 'cdn'
C6_Witness ==
    /\ mpc = "selected"
    /\ Len(listing) = 2
    /\ listing[1] = Str_hub
    /\ listing[2] = Str_cdn
    /\ Len(v) >= 4
    /\ IsSeed(v[1]) /\ IsSeed(v[2]) /\ IsSeed(v[3])
    /\ \E i \in 1..Len(v) : ~IsSeed(v[i])

\* C7: no package path appears twice in the selector's output
C7_NoDuplicates ==
    mpc = "selected" => \A i, j \in 1..Len(v) : i # j => v[i] # v[j]

\* C7: 'cdn' is a directory found by the listing, and 'packages/cdn' is
\* selected, once
C7_Witness ==
    /\ mpc = "selected"
    /\ InList(Str_cdn, listing)
    /\ SeedList[1] \in dirs
    /\ Cardinality({i \in 1..Len(v) : v[i] = SeedList[1]}) = 1

-----------------------------------------------------------------------------
(* The shell executor: C1, C2, C10, under Spec.                            *)

Calls == 1..Len(tasks)

\* C1: a call of cmd or run that has run its finally clause, and returns or
\* raises next, finds the working directory of the process as it was when
\* the call began (home is the directory the call read on entry)
C1_CwdRestored ==
    \A i \in Calls : tasks[i].pc = "left" => cwd = tasks[i].home

\* C1 within the serial handlers alone, where it holds
C1_CwdRestoredSerial ==
    handler \in SerialHandlers => C1_CwdRestored

\* C2: in clean and npm, a call that has changed into its package's
\* directory, and hands its command to the shell next, has that directory
\* as the working directory
C2_OwnDirectory ==
    \A i \in Calls :
        handler \in PoolHandlers /\ tasks[i].pc = "pathed" => cwd = tasks[i].dir

Failed(o) == o \in {"fail", "notfound"}
Ended(i) == tasks[i].pc \in {"finally", "left", "done"}

\* C10 as claimed: no error but the generic one, with the command, leaves
\* cmd or run
C10_SingleErrorKind ==
    \A i \in Calls :
        \/ tasks[i].exc = NoExc
        \/ tasks[i].exc = Exc("RuntimeError", tasks[i].s)

\* C10, amended: a call whose command the shell ran raises the generic error
\* carrying the command exactly when the exit status is not zero, be it a
\* failed command or one the shell did not find (run raises a decoding
\* error instead when the output is not UTF-8); a call whose working
\* directory is missing never runs its command and lets the file-not-found
\* error of the directory change through
C10_ErrorKinds ==
    \A i \in Calls :
        Ended(i) =>
            LET e == tasks[i].exc
                o == tasks[i].outcome
                decoding == tasks[i].kind = "run" /\ e = Exc("UnicodeDecodeError", "")
            IN  /\ o = "none" <=> e = Exc("FileNotFoundError", "")
                /\ o = "none" => tasks[i].given /\ ~DirExists(tasks[i].dir, dirs)
                /\ Failed(o) <=> (e = Exc("RuntimeError", tasks[i].s) \/ (decoding /\ o # "ok"))
                /\ o = "ok" <=> (e = NoExc \/ (decoding /\ o = "ok"))

\* C10: in one run of a pool handler, a command the shell did not find has
\* raised the generic error and a missing directory the file-not-found error
C10_Witness ==
    /\ handler \in PoolHandlers
    /\ \E i \in Calls :
           /\ tasks[i].outcome = "notfound"
           /\ tasks[i].exc = Exc("RuntimeError", tasks[i].s)
    /\ \E i \in Calls :
           /\ tasks[i].outcome = "none"
           /\ tasks[i].exc = Exc("FileNotFoundError", "")

-----------------------------------------------------------------------------
(* The handlers: C3, C4, C8, C9, under Spec.                               *)

\* the shell has been given the command of call i
Attempted(i) == tasks[i].outcome # "none"

\* C3: ci attempts the installs in selector order, one at a time: an install
\* is attempted only after every earlier one has succeeded, and once an
\* install has failed no later one is attempted and ci ends with the
\* execution error that carries the install command
C3_CiStopsAtFirstFailure ==
    handler = "ci" /\ mpc # "start" /\ mpc # "selected" =>
        /\ Len(tasks) = Len(v)
        /\ Cardinality(Running) <= 1
        /\ \A i \in Calls :
               /\ tasks[i].dir = <<v[i]>>
               /\ tasks[i].s = "npm ci"
               /\ Attempted(i) => \A j \in 1..(i - 1) : tasks[j].outcome = "ok"
               /\ Failed(tasks[i].outcome) =>
                      /\ \A j \in (i + 1)..Len(tasks) : tasks[j].pc = "ready"
                      /\ mpc \in {"loop", "raised"}
                      /\ mpc = "loop" => tasks[i].pc # "done"
                      /\ mpc = "raised" => err = Exc("RuntimeError", "npm ci")

\* C3: of three selected packages the first install succeeded and the second
\* failed; ci has ended with the error and the third was never started
C3_Witness ==
    /\ handler = "ci"
    /\ mpc = "raised"
    /\ Len(tasks) = 3
    /\ tasks[1].outcome = "ok"
    /\ tasks[2].outcome = "fail"
    /\ tasks[3].pc = "ready"
    /\ err = Exc("RuntimeError", "npm ci")

\* the build command of call i is about to start, or its call is under way
Building(i) == tasks[i].pc \in {"ready", "entered", "pathed"}

\* C4: when the build command of a package other than 'packages/static'
\* starts, the package holds no 'dist' folder (one that existed was deleted);
\* the 'dist' folder of 'packages/static' is never deleted by build
C4_DistCleared ==
    handler = "build" =>
        /\ \A i \in Calls :
               Building(i) /\ v[i] # Str_packages_static => v[i] \notin dist
        /\ Str_packages_static \notin cleared

\* C4: 'packages/static' and another package both held a 'dist' folder; the
\* other one's was deleted and its build has run, and the build command of
\* 'packages/static' starts with its 'dist' folder in place
C4_Witness ==
    /\ handler = "build"
    /\ Str_packages_static \in dist
    /\ \E i, j \in Calls :
           /\ v[i] \in cleared
           /\ tasks[i].pc = "done"
           /\ v[j] = Str_packages_static
           /\ tasks[j].pc = "pathed"

\* a task of the pool has failed
RmFailed == \E j \in 1..Len(rmDone) : rmDone[j] = "fail"
CallFailed == \E i \in Calls : tasks[i].exc # NoExc

\* a step of clean once a deletion has failed
AfterFailedDeletion ==
    mpc = "rm" /\ RmFailed =>
        /\ mpc' \in {"rm", "raised"}
        /\ mpc' = "raised" => err' = Exc("OSError", "") /\ err' = firstExc
        /\ tasks' = <<>>
        /\ banners' = <<"Deleting">>

\* a step of clean or npm once a call has failed
AfterFailedCall ==
    handler \in PoolHandlers /\ mpc = "map" /\ CallFailed =>
        /\ mpc' \in {"map", "raised"}
        /\ mpc' = "raised" =>
               /\ \E i \in Calls : err' = tasks[i].exc /\ err' # NoExc
               /\ err' = firstExc

\* the pool keeps the exception of the first task that ended with one
KeepsFirst ==
    /\ firstExc # NoExc => firstExc' = firstExc
    /\ firstExc = NoExc /\ firstExc' # NoExc =>
           \/ \E i \in Calls : tasks[i].pc = "left" /\ tasks'[i].pc = "done"
                                /\ firstExc' = tasks[i].exc
           \/ \E j \in 1..Len(rmDone) : rmDone[j] = "no" /\ rmDone'[j] = "fail"

\* C8: thread_map over a pool never returns normally once a task has failed:
\* the deletions of clean, with a failed one among them, end in the error of
\* a deletion and the 'npm run clean' phase never starts; the calls of clean
\* and npm, with a failed one among them, end in the error of one of them
C8_PoolPropagates ==
    /\ [][AfterFailedDeletion]_vars
    /\ [][AfterFailedCall]_vars
    /\ [][KeepsFirst]_vars

\* C8: one deletion of clean succeeded and another failed; clean has ended
\* with the error and has started no 'npm run clean'
C8_Witness ==
    /\ handler = "clean"
    /\ mpc = "raised"
    /\ err = Exc("OSError", "")
    /\ \E j \in 1..Len(rmDone) : rmDone[j] = "ok"
    /\ RmFailed
    /\ tasks = <<>>

\* the folders clean looks for, per the flags
TargetFolders ==
    IF distOnly THEN {"dist"}
    ELSE IF nmOnly THEN {"node_modules"}
    ELSE {"dist", "node_modules"}

\* the target folders that exist under the selected packages
Existing ==
    {y \in [pkg : Range(v), folder : TargetFolders] :
        (y.folder = "dist" /\ y.pkg \in dist) \/ (y.folder = "node_modules" /\ y.pkg \in nm)}

\* while clean deletes: the folders still to delete exist, and every
\* existing target folder is among the submitted ones
Submitted ==
    handler = "clean" /\ mpc = "rm" =>
        /\ Len(paths) > 0
        /\ \A i, j \in 1..Len(paths) : i # j => paths[i] # paths[j]
        /\ {paths[j] : j \in {k \in 1..Len(paths) : rmDone[k] = "no"}} \subseteq Existing
        /\ Existing \subseteq Range(paths)

\* the step of clean after the selection when no target folder exists
NothingToDelete ==
    handler = "clean" /\ mpc = "selected" /\ Existing = {} =>
        /\ mpc' = "g"
        /\ banners' = <<"No node_modules or dist directories">>
        /\ UNCHANGED <<dist, nm>>

\* once the second banner is printed: one call per selected package, all
\* of them made when clean ends
CleanedEveryPackage ==
    handler = "clean" /\ Len(banners) = 2 =>
        /\ Len(tasks) = Len(v)
        /\ \A i \in Calls :
               /\ tasks[i].s = "npm run clean --if-present"
               /\ tasks[i].dir = <<v[i]>>
        /\ mpc \in {"done", "raised"} => \A i \in Calls : tasks[i].pc = "done"

\* C9: clean submits for deletion the target folders that exist, and no
\* other; when none exists it deletes nothing and prints the 'no directories'
\* banner; and 'npm run clean --if-present' is then called once for every
\* selected package, with the package's directory
C9_CleanDeletesExisting ==
    /\ []Submitted
    /\ [][NothingToDelete]_vars
    /\ []CleanedEveryPackage

\* C9: no target folder existed under the two selected packages; the 'no
\* directories' banner was printed and 'npm run clean --if-present' has run
\* for both
C9_Witness ==
    /\ handler = "clean"
    /\ distOnly
    /\ mpc = "done"
    /\ banners = <<"No node_modules or dist directories",
                   "Running 'npm run clean' if it exists...">>
    /\ Len(v) = 2
    /\ \A i \in Calls : tasks[i].pc = "done" /\ tasks[i].outcome = "ok"

====
